---- MODULE Spec2Model ----
(***************************************************************************)
(* Model of backend/main.py of chart-data-extractor: the image normalizer  *)
(* (compress_image), the sheet-name helper (safe_sheet_name) and the three *)
(* request handlers /api/upload, /api/extract and /api/export.             *)
(*                                                                         *)
(* The server keeps no state between requests.  A behaviour is one request *)
(* drawn from a bounded set (Init) followed by the handler that serves it  *)
(* (one action per handler, the whole handler in one step).  Text is a     *)
(* TLA+ string; a character of it is SubSeq(s, i, i).                      *)
(***************************************************************************)
EXTENDS Integers, Sequences, FiniteSets, TLC

VARIABLES request, response

vars == <<request, response>>

\* The response of a request that has not been served yet.
Pending == [status |-> 0]

Max(a, b) == IF a >= b THEN a ELSE b

Min(a, b) == IF a <= b THEN a ELSE b

RECURSIVE Pow2(_)
Pow2(n) == IF n <= 0 THEN 1 ELSE 2 * Pow2(n - 1)

\* ---------------------------------------------------------------------------
\* compress_image (main.py 46-57)
\* ---------------------------------------------------------------------------

\* max_side's default value.
DefaultMaxSide == 1400

\* if img.mode in ("RGBA", "P", "LA"): img = img.convert("RGB")
ConvertMode(mode) == IF mode \in {"RGBA", "P", "LA"} THEN "RGB" ELSE mode

\* The modes img.save(format="JPEG") writes; every other mode raises OSError
\* ("cannot write mode ... as JPEG").
JpegModes == {"1", "L", "RGB", "RGBX", "CMYK", "YCbCr"}

\* The binary exponent of ratio = max_side / m (0 < ratio < 1): the e with
\* 2^(-e-1) <= ratio < 2^(-e).
RECURSIVE RatioExp(_, _, _)
RatioExp(ms, m, e) == IF ms * Pow2(e + 1) >= m THEN e ELSE RatioExp(ms, m, e + 1)

\* (x * 2^n) mod m by repeated doubling (eight doublings at a time while
\* that many are left): the remainder of the long division that yields the
\* 53-bit significand of max_side / m.
RECURSIVE ShiftMod(_, _, _)
ShiftMod(x, n, m) ==
    IF n = 0 THEN x % m
    ELSE IF n >= 8 THEN ShiftMod((256 * x) % m, n - 8, m)
    ELSE ShiftMod((2 * x) % m, n - 1, m)

\* The least k with q <= 2^k (q >= 1): the doubles just below q lie in the
\* binade [2^(k-1), 2^k).
RECURSIVE BinadeBelow(_, _)
BinadeBelow(q, k) == IF Pow2(k) >= q THEN k ELSE BinadeBelow(q, k + 1)

\* int(w * ratio) with ratio = max_side / m, in IEEE-754 double arithmetic
\* (round to nearest), m = max(w, h) > max_side.  The double result differs
\* from floor(w * max_side / m) only when the exact quotient is an integer q
\* and the significand of ratio was rounded down by more than half an ulp of
\* the product below q: then the product is a double just below q and int()
\* truncates it to q - 1.
FloatScale(w, ms, m) ==
    LET q   == (w * ms) \div m
        e   == RatioExp(ms, m, 0)
        rho == ShiftMod(ms, 53 + e, m)
    IN  IF (w * ms) % m # 0 THEN q
        ELSE IF 2 * rho < m /\ 2 * w * rho > m * Pow2(BinadeBelow(q, 0) + e)
             THEN q - 1
             ELSE q

\* Lines 51-54: the size handed on to save(), <<w, h>> unchanged when the
\* longer side is within max_side.
ResizeDims(w, h, max_side) ==
    LET m == Max(w, h)
    IN  IF m > max_side
        THEN <<FloatScale(w, max_side, m), FloatScale(h, max_side, m)>>
        ELSE <<w, h>>

\* compress_image(image_bytes, max_side).  An image is [decodable, mode, w, h,
\* id]; the result is [raised, w, h, src]: raised is "" on success (the data
\* returned is the JPEG of image src at w x h) and the exception otherwise:
\* Image.open on bytes that are no image, Image.resize to a size with a zero
\* side, Image.save of a mode JPEG cannot hold.
compress_image(img, max_side) ==
    IF ~img.decodable
    THEN [raised |-> "UnidentifiedImageError", w |-> 0, h |-> 0, src |-> img.id]
    ELSE LET mode == ConvertMode(img.mode)
             size == ResizeDims(img.w, img.h, max_side)
         IN  IF size[1] < 1 \/ size[2] < 1
             THEN [raised |-> "ValueError", w |-> size[1], h |-> size[2], src |-> img.id]
             ELSE IF mode \notin JpegModes
                  THEN [raised |-> "OSError", w |-> size[1], h |-> size[2], src |-> img.id]
                  ELSE [raised |-> "", w |-> size[1], h |-> size[2], src |-> img.id]

\* Bounds of the images drawn: sides 1..MaxSmallSide, a few sides around the
\* default threshold and its multiples, thresholds DefaultMaxSide and
\* 1..MaxSmallSide.
MaxSmallSide == 6

Sides == (1 .. MaxSmallSide) \cup {700, 1399, 1400, 1401, 1402, 2000, 2099, 2800, 2801}

ImageModes == {"RGB", "RGBA", "P", "LA", "L", "I;16"}

MaxSides == {DefaultMaxSide} \cup (1 .. MaxSmallSide)

CompressRequests ==
    [op : {"compress_image"}, decodable : BOOLEAN, mode : ImageModes,
     w : Sides, h : Sides, id : {<<0, 0>>}, max_side : MaxSides]

InitCompress == request \in CompressRequests /\ response = Pending

CompressImage ==
    /\ request.op = "compress_image"
    /\ response = Pending
    /\ response' = [status |-> 200, out |-> compress_image(request, request.max_side)]
    /\ UNCHANGED request

SpecCompress == InitCompress /\ [][CompressImage]_vars

\* ---------------------------------------------------------------------------
\* Text and JSON values
\* ---------------------------------------------------------------------------

Char(s, i) == SubSeq(s, i, i)

Chars(s) == {Char(s, i) : i \in 1 .. Len(s)}

DigitChars == "0123456789"

\* The texts cs[lo], ..., cs[hi] joined in order (halving the range keeps the
\* evaluation shallow).
RECURSIVE JoinRange(_, _, _)
JoinRange(cs, lo, hi) ==
    IF lo > hi THEN ""
    ELSE IF lo = hi THEN cs[lo]
    ELSE JoinRange(cs, lo, (lo + hi) \div 2) \o JoinRange(cs, (lo + hi) \div 2 + 1, hi)

Join(cs) == JoinRange(cs, 1, Len(cs))

\* str(n) of a natural number: its decimal digits.
RECURSIVE IntToStr(_)
IntToStr(n) ==
    IF n < 10 THEN Char(DigitChars, n + 1)
    ELSE IntToStr(n \div 10) \o Char(DigitChars, (n % 10) + 1)

\* A JSON value of a chart document, as the handlers read it: a key that is
\* absent, null, a string or a number.
Absent == [t |-> "absent", s |-> "", n |-> 0]

Null == [t |-> "null", s |-> "", n |-> 0]

Str(x) == [t |-> "str", s |-> x, n |-> 0]

Num(x) == [t |-> "num", s |-> "", n |-> x]

\* dict.get(key, default)
Get(v, default) == IF v.t = "absent" THEN default ELSE v

\* Python's truth value of v, negated: what (v or default) replaces.
Falsy(v) ==
    \/ v.t \in {"absent", "null"}
    \/ v.t = "str" /\ v.s = ""
    \/ v.t = "num" /\ v.n = 0

\* str(v), as an f-string and csv.writer's fields format a value that is
\* not None.
PyStr(v) ==
    CASE v.t = "str" -> v.s
      [] v.t = "num" -> IntToStr(v.n)
      [] OTHER -> "None"

\* ---------------------------------------------------------------------------
\* safe_sheet_name (main.py 60-68)
\* ---------------------------------------------------------------------------

\* The length base is cut to.
BaseLen == 28

\* The class [\\/*?:\[\]] of the pattern.
IllegalChars == {"\\", "/", "*", "?", ":", "[", "]"}

\* re.sub(r"[\\/*?:\[\]]", "_", name)
SubIllegal(s) ==
    Join([i \in 1 .. Len(s) |-> IF Char(s, i) \in IllegalChars THEN "_" ELSE Char(s, i)])

\* base = re.sub(...)[:28] or "Chart"
SheetBase(name) ==
    LET cut == SubSeq(SubIllegal(name), 1, Min(Len(name), BaseLen))
    IN  IF cut = "" THEN "Chart" ELSE cut

\* f"{base}_{suffix}"
Suffixed(base, suffix) == base \o "_" \o IntToStr(suffix)

\* The while loop of lines 65-67 when base is taken: it leaves with the first
\* of base_1, base_2, ... that is not in used, the set of the names in
\* existing (one of the first Cardinality(used) + 1 is not).
FirstUnused(base, used) ==
    LET n == CHOOSE k \in 1 .. Cardinality(used) + 1 :
                /\ Suffixed(base, k) \notin used
                /\ \A m \in 1 .. k - 1 : Suffixed(base, m) \in used
    IN  Suffixed(base, n)

\* The mutant of safe_sheet_name: tries the first suffix only.
safe_sheet_name_once(name, existing) ==
    LET base == SheetBase(name)
        used == {existing[k] : k \in 1 .. Len(existing)}
    IN  IF base \in used THEN base \o "_1" ELSE base

safe_sheet_name(name, existing) ==
    LET base == SheetBase(name)
        used == {existing[k] : k \in 1 .. Len(existing)}
    IN  IF base \in used THEN FirstUnused(base, used) ELSE base

\* ---------------------------------------------------------------------------
\* export_data (main.py 265-389)
\* ---------------------------------------------------------------------------

LowerChars == "abcdefghijklmnopqrstuvwxyz"

UpperChars == "ABCDEFGHIJKLMNOPQRSTUVWXYZ"

\* The place of character c in alphabet, 0 when it is not in it.
IndexIn(c, alphabet) ==
    IF \E k \in 1 .. Len(alphabet) : Char(alphabet, k) = c
    THEN CHOOSE k \in 1 .. Len(alphabet) : Char(alphabet, k) = c
    ELSE 0

ToLower(c) ==
    IF IndexIn(c, UpperChars) > 0 THEN Char(LowerChars, IndexIn(c, UpperChars)) ELSE c

ToUpper(c) ==
    IF IndexIn(c, LowerChars) > 0 THEN Char(UpperChars, IndexIn(c, LowerChars)) ELSE c

IsCased(c) == IndexIn(c, LowerChars) > 0 \/ IndexIn(c, UpperChars) > 0

\* str.lower()
Lower(s) == Join([i \in 1 .. Len(s) |-> ToLower(Char(s, i))])

\* str.replace("_", " ")
ReplaceUnderscore(s) ==
    Join([i \in 1 .. Len(s) |-> IF Char(s, i) = "_" THEN " " ELSE Char(s, i)])

\* str.title(): a cased character is upper case when it starts a word and
\* lower case when it follows a cased character.
TitleCase(s) ==
    Join([i \in 1 .. Len(s) |->
            IF i > 1 /\ IsCased(Char(s, i - 1)) THEN ToLower(Char(s, i))
            ELSE ToUpper(Char(s, i))])

\* The characters re's \w matches among those of the model, and "-", "_".
FilenameChars == Chars(LowerChars) \cup Chars(UpperChars) \cup Chars(DigitChars) \cup {"-", "_"}

\* re.sub(r"[^\w\-_]", "_", request.filename)
SubFilename(s) ==
    Join([i \in 1 .. Len(s) |-> IF Char(s, i) \in FilenameChars THEN Char(s, i) ELSE "_"])

\* Line 273
SafeFilename(filename) ==
    IF SubFilename(filename) = "" THEN "chart_data" ELSE SubFilename(filename)

\* title = chart.get("title") or f"Chart {i + 1}", k = i + 1.
ChartTitle(chart, k) ==
    IF Falsy(chart.title) THEN "Chart " \o IntToStr(k) ELSE chart.title.s

\* ctype = chart.get("type", "unknown")
ChartType(chart) == Get(chart.type, Str("unknown"))

\* unit = chart.get("unit", "")
ChartUnit(chart) == Get(chart.unit, Str(""))

\* The header row of lines 300-307 and 349-353; series is chart.get("series")
\* or [], a list of strings.
HeaderRow(series, unit) ==
    IF series # <<>>
    THEN <<"Category">> \o series
    ELSE <<"Category", IF Falsy(unit) THEN "Value" ELSE "Value (" \o PyStr(unit) \o ")">>

\* One data row, lines 302-309 and 364-369.  row.values is row.get("values")
\* or {}: a function from the series names it holds to their values.
DataRow(series, row) ==
    IF series # <<>>
    THEN <<Get(row.label, Str(""))>> \o
         [j \in 1 .. Len(series) |->
            IF series[j] \in DOMAIN row.values THEN row.values[series[j]] ELSE Str("")]
    ELSE <<Get(row.label, Str("")), Get(row.value, Str(""))>>

\* A field as csv.writer writes it: None as the empty field, anything else as
\* str() of it.  (No text of the model holds a comma, a quote or a line
\* break, so no field is quoted.)
CsvField(v) == IF v.t \in {"absent", "null"} THEN "" ELSE PyStr(v)

CsvRow(cells) == [j \in 1 .. Len(cells) |-> CsvField(cells[j])]

\* The rows csv.writer is given for chart k (lines 289-309), each a list of
\* fields.
CsvBlock(chart, k) ==
    (IF k > 1 THEN <<(<<>>)>> ELSE <<>>) \o
    << <<"Chart: " \o ChartTitle(chart, k),
         "Type: " \o PyStr(ChartType(chart)),
         "Unit: " \o PyStr(ChartUnit(chart))>>,
       <<>>,
       HeaderRow(chart.series, ChartUnit(chart)) >> \o
    [r \in 1 .. Len(chart.data) |-> CsvRow(DataRow(chart.series, chart.data[r]))]

RECURSIVE CsvRows(_, _)
CsvRows(charts, k) ==
    IF k > Len(charts) THEN <<>>
    ELSE CsvBlock(charts[k], k) \o CsvRows(charts, k + 1)

\* The widest column is capped at MaxWidth; WidthPad is added to the longest
\* value; EmptyWidth is max()'s default, for a column of no cells.
MaxWidth == 60

WidthPad == 3

EmptyWidth == 8

\* len(str(c.value or ""))
CellLen(v) == IF Falsy(v) THEN 0 ELSE Len(PyStr(v))

SetMax(S) == CHOOSE x \in S : \A y \in S : y <= x

\* The cells of column j of the sheet's rows; a row shorter than j has an
\* empty cell (None) there.
ColumnCells(rows, j) ==
    [r \in 1 .. Len(rows) |-> IF j <= Len(rows[r]) THEN rows[r][j] ELSE Null]

\* Lines 373-376, one column.
ColumnWidth(cells) ==
    LET width == IF cells = <<>> THEN EmptyWidth
                 ELSE SetMax({CellLen(cells[r]) : r \in 1 .. Len(cells)})
    IN  Min(width + WidthPad, MaxWidth)

StrCells(row) == [j \in 1 .. Len(row) |-> Str(row[j])]

\* The body of the for loop of lines 329-376 for chart k: the sheet made
\* (its name as safe_sheet_name returns it, the values of its rows, its
\* column widths), or the exception ctype.replace raises when "type" holds
\* no string.
XlsxSheet(chart, k, existing) ==
    LET title  == ChartTitle(chart, k)
        ctype  == ChartType(chart)
        unit   == ChartUnit(chart)
        sname  == safe_sheet_name(title, existing)
        rows   == << <<Str("Chart"), Str(title)>>,
                     <<Str("Type"), Str(TitleCase(ReplaceUnderscore(ctype.s)))>>,
                     <<Str("Unit"), unit>>,
                     <<>>,
                     StrCells(HeaderRow(chart.series, unit)) >> \o
                  [r \in 1 .. Len(chart.data) |-> DataRow(chart.series, chart.data[r])]
        ncols  == SetMax({Len(rows[r]) : r \in 1 .. Len(rows)})
    IN  IF ctype.t # "str"
        THEN [raised |-> "AttributeError", name |-> sname, rows |-> <<>>, widths |-> <<>>]
        ELSE [raised |-> "", name |-> sname, rows |-> rows,
              widths |-> [j \in 1 .. ncols |-> ColumnWidth(ColumnCells(rows, j))]]

\* The for loop of lines 329-376 over charts lo..hi, in order, entered with
\* wb = [raised, existing, sheets]: existing is existing_sheets, sheets the
\* sheets made so far.  An exception leaves the loop.  (The range is run as
\* its two halves, one after the other, to keep the evaluation shallow.)
RECURSIVE XlsxSheets(_, _, _, _)
XlsxSheets(charts, lo, hi, wb) ==
    IF lo > hi \/ wb.raised # "" THEN wb
    ELSE IF lo = hi
    THEN LET sheet == XlsxSheet(charts[lo], lo, wb.existing)
         IN  IF sheet.raised # "" THEN [wb EXCEPT !.raised = sheet.raised]
             ELSE [raised |-> "", existing |-> Append(wb.existing, sheet.name),
                   sheets |-> Append(wb.sheets, sheet)]
    ELSE LET mid  == (lo + hi) \div 2
             half == XlsxSheets(charts, lo, mid, wb)
         IN  XlsxSheets(charts, mid + 1, hi, half)

\* Lines 320-327: the workbook before the loop.
NewWorkbook == [raised |-> "", existing |-> <<>>, sheets |-> <<>>]

\* raise HTTPException(status, ...); an exception no handler catches is the
\* framework's 500.
Error(code) == [status |-> code]

FileResponse(kind, fn, ext, body) ==
    [status |-> 200, kind |-> kind, filename |-> fn \o "." \o ext, body |-> body]

\* export_data(request): the response.
export_data(req) ==
    LET charts == req.charts
        fmt    == Lower(req.format)
        fn     == SafeFilename(req.filename)
    IN  IF charts = <<>> THEN Error(400)
        ELSE IF fmt = "json" THEN FileResponse("json", fn, "json", charts)
        ELSE IF fmt = "csv" THEN FileResponse("csv", fn, "csv", CsvRows(charts, 1))
        ELSE IF fmt = "xlsx"
             THEN LET wb == XlsxSheets(charts, 1, Len(charts), NewWorkbook)
                  IN  IF wb.raised # "" THEN Error(500)
                      ELSE FileResponse("xlsx", fn, "xlsx", wb.sheets)
        ELSE Error(400)

\* The export requests drawn.  MaxCharts bounds the charts of a request whose
\* titles vary, MaxPoints the data points of a chart whose points vary,
\* MaxSame the charts of a request that repeats one title.
MaxCharts == 3

MaxPoints == 2

MaxSame == 101

SeqsUpTo(S, n) == UNION {[1 .. k -> S] : k \in 0 .. n}

\* Texts of 28, 30 and 60 characters.
Text28 == "Quarterly revenue by regions"

Text30 == Text28 \o "/2"

Text60 == Text28 \o Text28 \o "2024"

Formats == {"xlsx", "XLSX", "csv", "Csv", "json", "pdf", ""}

Titles ==
    {Absent, Str("Q"), Str("Q_1"), Str("Q/1"), Str("Q_2"), Str("Chart 2"),
     Str("Chart"), Str("Chart_1"), Str(Text28), Str(Text30)}

BareChart(title) ==
    [title |-> title, type |-> Str("bar"), unit |-> Absent, series |-> <<>>, data |-> <<>>]

\* Requests for a spreadsheet of up to MaxCharts charts with any titles.
NameRequests ==
    {[op |-> "export", format |-> "xlsx", filename |-> "chart_data",
      charts |-> [k \in DOMAIN ts |-> BareChart(ts[k])]] : ts \in SeqsUpTo(Titles, MaxCharts)}

SeriesNames == {"A", "B"}

SeriesLists == {<<>>, <<"A">>, <<"A", "B">>}

\* A data point: "label" and "value" absent or present, "values" holding any
\* subset of the series names.
Points ==
    {[label |-> l, value |-> v, values |-> vs] :
        l \in {Absent, Str("Jan")},
        v \in {Absent, Num(0), Num(100)},
        vs \in UNION {[D -> {Num(7)}] : D \in SUBSET SeriesNames}}

\* Requests for one chart with any data points, as CSV and as a spreadsheet.
PointRequests ==
    {[op |-> "export", format |-> f, filename |-> "chart_data",
      charts |-> <<[title |-> Str("Sales"), type |-> Str("bar"), unit |-> u,
                    series |-> ss, data |-> d]>>] :
        f \in {"csv", "xlsx"}, u \in {Absent, Str("$")}, ss \in SeriesLists,
        d \in SeqsUpTo(Points, MaxPoints)}

FieldCharts ==
    {[title |-> ti, type |-> ty, unit |-> u, series |-> ss, data |-> d] :
        ti \in {Absent, Str("Sales"), Str(Text60)},
        ty \in {Absent, Null, Str("stacked_bar")},
        u \in {Absent, Str("$")},
        ss \in {<<>>, <<"A", "B">>},
        d \in {<<>>, <<[label |-> Str("Jan"), value |-> Num(0),
                        values |-> [x \in SeriesNames |-> Num(0)]]>>}}

\* Requests with no chart or one chart, in every format, the fields of the
\* chart absent or present.
FieldRequests ==
    {[op |-> "export", format |-> f, filename |-> fn, charts |-> cs] :
        f \in Formats, fn \in {"chart_data", "my file", ""},
        cs \in {<<>>} \cup {<<c>> : c \in FieldCharts}}

\* Requests for a spreadsheet of up to MaxSame charts of one title.
SameTitleRequests ==
    {[op |-> "export", format |-> "xlsx", filename |-> "chart_data",
      charts |-> [k \in 1 .. n |-> BareChart(Str(t))]] :
        n \in 0 .. MaxSame, t \in {"Q1", Text28, Text30}}

ExportRequests == NameRequests \cup PointRequests \cup FieldRequests

InitExport == request \in ExportRequests /\ response = Pending

InitSameTitle == request \in SameTitleRequests /\ response = Pending

ExportData ==
    /\ request.op = "export"
    /\ response = Pending
    /\ response' = export_data(request)
    /\ UNCHANGED request

SpecExport == InitExport /\ [][ExportData]_vars

SpecSameTitle == InitSameTitle /\ [][ExportData]_vars

\* ---------------------------------------------------------------------------
\* Claims about export_data and safe_sheet_name
\* ---------------------------------------------------------------------------

XlsxServed ==
    request.op = "export" /\ response.status = 200 /\ response.kind = "xlsx"

CsvServed ==
    request.op = "export" /\ response.status = 200 /\ response.kind = "csv"

\* C1: in one spreadsheet export the sheet names safe_sheet_name returns are
\* pairwise distinct; a name is its title's base when no earlier sheet has
\* it, and otherwise the base with "_<n>" appended, n the smallest positive
\* integer whose suffixed name no earlier sheet has.
C1_SheetNamesUnique ==
    XlsxServed =>
        \A k \in 1 .. Len(response.body) :
            LET name    == response.body[k].name
                base    == SheetBase(ChartTitle(request.charts[k], k))
                earlier == {response.body[j].name : j \in 1 .. k - 1}
            IN  /\ name \notin earlier
                /\ IF base \notin earlier THEN name = base
                   ELSE \E n \in 1 .. k :
                          /\ name = base \o "_" \o IntToStr(n)
                          /\ \A m \in 1 .. n - 1 : (base \o "_" \o IntToStr(m)) \in earlier

\* C1's case: a title that is itself a suffixed name ("Q_1") took the first
\* suffix, and a later "Q" collided twice and was given "_2".
C1_Witness ==
    /\ XlsxServed
    /\ Len(response.body) = 3
    /\ request.charts[1].title = Str("Q")
    /\ request.charts[2].title = Str("Q_1")
    /\ request.charts[3].title = Str("Q")
    /\ response.body[3].name = "Q_2"

\* The length the docstring of safe_sheet_name promises (line 61).
MaxSheetName == 31

\* C2: every sheet name safe_sheet_name produces has at most 31 characters,
\* whatever the title's length and the number of earlier colliding names.
C2_SheetNameLength ==
    XlsxServed => \A k \in 1 .. Len(response.body) : Len(response.body[k].name) <= MaxSheetName

\* C3: /api/export answers 400 when the chart list is empty (whatever the
\* format) or the format, lower-cased, is none of xlsx, csv, json, and a file
\* for every other request.
C3_ErrorsOnlyOnEmptyOrUnknown ==
    (request.op = "export" /\ response # Pending) =>
        IF request.charts = <<>> \/ Lower(request.format) \notin {"xlsx", "csv", "json"}
        THEN response.status = 400
        ELSE response.status = 200

\* C9: every column width set in a sheet is at least 8 and at most 60.
C9_WidthRange ==
    XlsxServed =>
        \A k \in 1 .. Len(response.body) :
            \A j \in 1 .. Len(response.body[k].widths) :
                /\ response.body[k].widths[j] >= EmptyWidth
                /\ response.body[k].widths[j] <= MaxWidth

\* The layout C10 states for a chart: its header ...
C10_Header(chart) ==
    IF chart.series # <<>> THEN <<"Category">> \o chart.series
    ELSE IF chart.unit.t = "str" /\ chart.unit.s # ""
         THEN <<"Category", "Value (" \o chart.unit.s \o ")">>
         ELSE <<"Category", "Value">>

\* ... and the row of a data point: the label and one value per series (or
\* the single value), a blank for each one missing.
C10_Row(chart, p) ==
    LET blank(v) == IF v.t = "absent" THEN Str("") ELSE v
    IN  IF chart.series # <<>>
        THEN [j \in 1 .. 1 + Len(chart.series) |->
                IF j = 1 THEN blank(p.label)
                ELSE IF chart.series[j - 1] \in DOMAIN p.values
                     THEN p.values[chart.series[j - 1]] ELSE Str("")]
        ELSE <<blank(p.label), blank(p.value)>>

\* The rows of the CSV before chart k's header row: the blocks of the charts
\* before it and its own separator, title and blank rows.
RECURSIVE C10_CsvOffset(_, _)
C10_CsvOffset(charts, k) ==
    IF k = 1 THEN 2
    ELSE C10_CsvOffset(charts, k - 1) + 1 + Len(charts[k - 1].data) + 3

\* The layout holds of every file that is produced.
ExportLayout ==
    /\ XlsxServed =>
         \A k \in 1 .. Len(request.charts) :
            LET chart == request.charts[k]
                rows  == response.body[k].rows
            IN  /\ Len(rows) = 5 + Len(chart.data)
                /\ rows[5] = StrCells(C10_Header(chart))
                /\ \A r \in 1 .. Len(chart.data) : rows[5 + r] = C10_Row(chart, chart.data[r])
    /\ CsvServed =>
         \A k \in 1 .. Len(request.charts) :
            LET chart == request.charts[k]
                at    == C10_CsvOffset(request.charts, k)
            IN  /\ Len(response.body) >= at + 1 + Len(chart.data)
                /\ response.body[at + 1] = C10_Header(chart)
                /\ \A r \in 1 .. Len(chart.data) :
                      response.body[at + 1 + r] = CsvRow(C10_Row(chart, chart.data[r]))

\* C10: for every chart and every shape of data point the CSV export and the
\* spreadsheet export succeed, with one data row per point in the layout
\* above.
C10_ExportTolerant ==
    (request.op = "export" /\ response # Pending /\ request.charts # <<>>
        /\ Lower(request.format) \in {"csv", "xlsx"}) =>
        /\ response.status = 200
        /\ ExportLayout

\* ---------------------------------------------------------------------------
\* upload_file (main.py 129-198)
\* ---------------------------------------------------------------------------

\* The pages of a PDF that are rendered.
PageCap == 30

\* str.endswith(suffix)
EndsWith(s, suffix) ==
    Len(s) >= Len(suffix) /\ SubSeq(s, Len(s) - Len(suffix) + 1, Len(s)) = suffix

RasterSuffixes == {".png", ".jpg", ".jpeg", ".webp", ".gif"}

\* The "data" of a placeholder entry: the empty string.
NoData == [src |-> <<0, 0>>, w |-> 0, h |-> 0]

\* The "data" of a normalized image: the JPEG compress_image returned.
JpegOf(out) == [src |-> out.src, w |-> out.w, h |-> out.h]

PageImage(page, out) ==
    [page |-> page, data |-> JpegOf(out), media_type |-> "image/jpeg", placeholder |-> FALSE]

Placeholder(page) ==
    [page |-> page, data |-> NoData, media_type |-> "image/jpeg", placeholder |-> TRUE]

\* for i in range(min(len(doc), 30)), lines 139-142; pages[i + 1] is the PNG
\* of doc[i]'s pixmap.  The images appended, one per page rendered, in order;
\* an exception of compress_image on any of them leaves the loop and the
\* handler.
PdfImages(pages) ==
    LET count == Min(Len(pages), PageCap)
        out   == [i \in 1 .. count |-> compress_image(pages[i], DefaultMaxSide)]
    IN  IF \E i \in 1 .. count : out[i].raised # ""
        THEN [raised |-> "Exception", images |-> <<>>]
        ELSE [raised |-> "", images |-> [i \in 1 .. count |-> PageImage(i, out[i])]]

\* The inner loop of lines 159-167 from shape j on: slide_images.  A shape is
\* [picture, image]; a picture compress_image raises on is passed over.
RECURSIVE SlideImages(_, _, _, _)
SlideImages(shapes, j, slide_num, slide_images) ==
    IF j > Len(shapes) THEN slide_images
    ELSE LET shape == shapes[j]
             out   == compress_image(shape.image, DefaultMaxSide)
         IN  IF shape.picture /\ out.raised = ""
             THEN SlideImages(shapes, j + 1, slide_num,
                              Append(slide_images, PageImage(slide_num, out)))
             ELSE SlideImages(shapes, j + 1, slide_num, slide_images)

\* The mutant of SlideEntry: every picture of the slide is kept.
SlideEntryAll(shapes, slide_num) ==
    LET slide_images == SlideImages(shapes, 1, slide_num, <<>>)
    IN  IF slide_images = <<>> THEN <<Placeholder(slide_num)>> ELSE slide_images

\* Lines 158-174 for one slide: what images is extended by.
SlideEntry(shapes, slide_num) ==
    LET slide_images == SlideImages(shapes, 1, slide_num, <<>>)
    IN  IF slide_images = <<>> THEN <<Placeholder(slide_num)>>
        ELSE SubSeq(slide_images, 1, 1)

\* for slide_num, slide in enumerate(prs.slides, start=1), lines 157-174.
RECURSIVE DeckImages(_, _)
DeckImages(slides, slide_num) ==
    IF slide_num > Len(slides) THEN <<>>
    ELSE SlideEntry(slides[slide_num], slide_num) \o DeckImages(slides, slide_num + 1)

\* upload_file(file).  file.content is what the bytes are: [kind |-> "pdf",
\* pages], [kind |-> "image", image], [kind |-> "pptx", slides] or bytes of no
\* known kind; a parser given bytes of another kind raises.  file.pptx_lib
\* tells whether python-pptx can be imported.  The result is the images
\* extracted, or the status of the error response.
ExtractImages(file) ==
    LET filename == Lower(file.filename)
        content  == file.content
    IN  IF EndsWith(filename, ".pdf")
        THEN IF content.kind # "pdf" THEN [status |-> 500, images |-> <<>>]
             ELSE LET got == PdfImages(content.pages)
                  IN  IF got.raised # "" THEN [status |-> 500, images |-> <<>>]
                      ELSE [status |-> 200, images |-> got.images]
        ELSE IF \E suffix \in RasterSuffixes : EndsWith(filename, suffix)
        THEN LET out == compress_image(
                            IF content.kind = "image" THEN content.image
                            ELSE [decodable |-> FALSE, mode |-> "", w |-> 0, h |-> 0,
                                  id |-> <<1, 0>>],
                            DefaultMaxSide)
             IN  IF out.raised # "" THEN [status |-> 500, images |-> <<>>]
                 ELSE [status |-> 200, images |-> <<PageImage(1, out)>>]
        ELSE IF EndsWith(filename, ".pptx")
        THEN IF ~file.pptx_lib \/ content.kind # "pptx"
             THEN [status |-> 400, images |-> <<>>]
             ELSE [status |-> 200, images |-> DeckImages(content.slides, 1)]
        ELSE [status |-> 400, images |-> <<>>]

upload_file(file) ==
    LET got == ExtractImages(file)
    IN  IF got.status # 200 THEN Error(got.status)
        ELSE IF got.images = <<>> THEN Error(400)
        ELSE [status |-> 200, filename |-> file.filename,
              total_pages |-> Len(got.images), images |-> got.images]

\* The uploads drawn.  MaxPages bounds the pages of a PDF (above PageCap),
\* MaxSlides the slides of a deck, MaxShapes the shapes of a slide.
MaxPages == 32

MaxSlides == 2

MaxShapes == 2

Image(decodable, mode, w, h, id) ==
    [decodable |-> decodable, mode |-> mode, w |-> w, h |-> h, id |-> id]

\* The pixmaps of pages at 1.5x: a letter page, an A2 page, and a page of
\* 3.33pt x 14400pt.
LetterPage == <<918, 1188>>

OddPages == {<<1787, 2526>>, <<5, 21600>>}

\* A PDF of n pages, all letter pages but page odd (none when odd = 0).
PdfDoc(n, odd, size) ==
    [kind |-> "pdf",
     pages |-> [i \in 1 .. n |->
                  IF i = odd THEN Image(TRUE, "RGB", size[1], size[2], <<i, 0>>)
                  ELSE Image(TRUE, "RGB", LetterPage[1], LetterPage[2], <<i, 0>>)]]

\* The shapes of a slide: a text box, a photo, a picture PIL cannot decode
\* (a metafile), a picture one pixel wide.
ShapeKinds == {"text", "photo", "metafile", "sliver"}

Shape(kind, id) ==
    CASE kind = "text"     -> [picture |-> FALSE, image |-> Image(FALSE, "", 0, 0, id)]
      [] kind = "photo"    -> [picture |-> TRUE, image |-> Image(TRUE, "RGBA", 2800, 2100, id)]
      [] kind = "metafile" -> [picture |-> TRUE, image |-> Image(FALSE, "", 0, 0, id)]
      [] kind = "sliver"   -> [picture |-> TRUE, image |-> Image(TRUE, "RGB", 1, 1500, id)]

\* A deck from the kinds of its shapes; a picture's image is named by its
\* slide and its place among the slide's shapes.
Deck(kinds) ==
    [kind |-> "pptx",
     slides |-> [sl \in DOMAIN kinds |->
                   [j \in DOMAIN kinds[sl] |-> Shape(kinds[sl][j], <<sl, j>>)]]]

Garbage == [kind |-> "garbage"]

Upload(filename, content, pptx_lib) ==
    [op |-> "upload", filename |-> filename, content |-> content, pptx_lib |-> pptx_lib]

PdfUploads ==
    {Upload(f, PdfDoc(n, odd, size), TRUE) :
        f \in {"report.pdf", "Report.PDF"}, n \in 0 .. MaxPages,
        odd \in 0 .. MaxPages, size \in OddPages}

ImageUploads ==
    {Upload(f, [kind |-> "image", image |-> Image(d, mode, w, h, <<1, 0>>)], TRUE) :
        f \in {"scan.png", "photo.JPG", "a.jpeg", "a.webp", "a.gif"},
        d \in BOOLEAN, mode \in ImageModes, w \in {1, 800, 2000}, h \in {1, 800, 2000}}

DeckUploads ==
    {Upload("deck.pptx", Deck(kinds), TRUE) :
        kinds \in SeqsUpTo(SeqsUpTo(ShapeKinds, MaxShapes), MaxSlides)}

\* Any file name with any kind of content, python-pptx installed or not.
OtherUploads ==
    {Upload(f, c, lib) :
        f \in {"report.pdf", "scan.png", "deck.pptx", "Deck.PPTX", "notes.txt", "",
               "report.pdf.zip", "pptx", "a.bmp"},
        c \in {Garbage, PdfDoc(1, 0, LetterPage),
               [kind |-> "image", image |-> Image(TRUE, "RGB", 800, 600, <<1, 0>>)],
               Deck(<< <<"photo">> >>)},
        lib \in BOOLEAN}

UploadRequests == PdfUploads \cup ImageUploads \cup DeckUploads \cup OtherUploads

InitUpload == request \in UploadRequests /\ response = Pending

UploadFile ==
    /\ request.op = "upload"
    /\ response = Pending
    /\ response' = upload_file(request)
    /\ UNCHANGED request

SpecUpload == InitUpload /\ [][UploadFile]_vars

\* ---------------------------------------------------------------------------
\* Claims about upload_file and compress_image
\* ---------------------------------------------------------------------------

UploadServed == request.op = "upload" /\ response # Pending

PdfUpload ==
    /\ request.op = "upload"
    /\ EndsWith(Lower(request.filename), ".pdf")
    /\ request.content.kind = "pdf"

DeckUpload ==
    /\ request.op = "upload"
    /\ EndsWith(Lower(request.filename), ".pptx")
    /\ request.content.kind = "pptx"
    /\ request.pptx_lib

\* C5: a PDF of n >= 1 pages yields exactly min(n, 30) entries, their page
\* fields 1, 2, ..., min(n, 30) in order, and total_pages is their number.
C5_PdfPages ==
    (PdfUpload /\ response # Pending /\ Len(request.content.pages) >= 1) =>
        /\ response.status = 200
        /\ Len(response.images) = Min(Len(request.content.pages), PageCap)
        /\ \A i \in 1 .. Len(response.images) : response.images[i].page = i
        /\ response.total_pages = Len(response.images)

\* The numbering C5 states holds of every PDF upload that is answered with
\* images.
PdfPagesWhenServed ==
    (PdfUpload /\ response.status = 200) =>
        /\ Len(response.images) = Min(Len(request.content.pages), PageCap)
        /\ \A i \in 1 .. Len(response.images) :
              /\ response.images[i].page = i
              /\ response.images[i].data.src = <<i, 0>>
        /\ response.total_pages = Len(response.images)

PictureShapes(shapes) == {j \in 1 .. Len(shapes) : shapes[j].picture}

\* The picture shapes compress_image returns a JPEG for.
UsablePictures(shapes) ==
    {j \in PictureShapes(shapes) :
        compress_image(shapes[j].image, DefaultMaxSide).raised = ""}

SetMin(S) == CHOOSE x \in S : \A y \in S : x <= y

C8_ClientErrors ==
    (UploadServed /\ response.status # 200) =>
        (response.status >= 400 /\ response.status < 500)

\* C7: for every image of width and height >= 1 compress_image raises
\* nothing; when the longer side is within max_side the size is unchanged,
\* and otherwise both sides are >= 1, none exceeds max_side and each is
\* floor(side * max_side / max(w, h)).
C7_ScaledDown ==
    (request.op = "compress_image" /\ response # Pending /\ request.decodable) =>
        LET out == response.out
            m   == Max(request.w, request.h)
        IN  /\ out.raised = ""
            /\ IF m <= request.max_side
               THEN out.w = request.w /\ out.h = request.h
               ELSE /\ Max(out.w, out.h) <= request.max_side
                    /\ out.w >= 1 /\ out.h >= 1
                    /\ out.w = (request.w * request.max_side) \div m
                    /\ out.h = (request.h * request.max_side) \div m

\* What does hold of every JPEG compress_image returns: no side exceeds
\* max_side, and no side is larger than the input's.
CompressedWithinBounds ==
    (request.op = "compress_image" /\ response # Pending /\ response.out.raised = "") =>
        /\ response.out.w <= request.w /\ response.out.h <= request.h
        /\ Max(request.w, request.h) > request.max_side =>
              Max(response.out.w, response.out.h) <= request.max_side

\* ---------------------------------------------------------------------------
\* extract_chart (main.py 206-256)
\* ---------------------------------------------------------------------------

\* The characters str.strip(), \s and the JSON decoder pass over.
Whitespace == {" ", "\n", "\t", "\r"}

\* The first place from i on that holds no whitespace; Len(s) + 1 at the end.
RECURSIVE SkipWs(_, _)
SkipWs(s, i) ==
    IF i <= Len(s) /\ Char(s, i) \in Whitespace THEN SkipWs(s, i + 1) ELSE i

\* The last place up to i that holds no whitespace; 0 if there is none.
RECURSIVE SkipWsBack(_, _)
SkipWsBack(s, i) ==
    IF i >= 1 /\ Char(s, i) \in Whitespace THEN SkipWsBack(s, i - 1) ELSE i

\* str.strip()
Strip(s) == SubSeq(s, SkipWs(s, 1), SkipWsBack(s, Len(s)))

\* The markdown code fence, three backquotes.  A TLA+ string cannot hold a
\* backquote: the texts of the model write an apostrophe for it.
Fence == "'''"

StartsWith(s, prefix) == Len(s) >= Len(prefix) /\ SubSeq(s, 1, Len(prefix)) = prefix

Drop(s, n) == SubSeq(s, n + 1, Len(s))

\* re.sub(r"^<fence>(?:json)?\s*", "", text)
StripLeadingFence(text) ==
    IF ~StartsWith(text, Fence) THEN text
    ELSE LET rest   == Drop(text, 3)
             tagged == IF StartsWith(rest, "json") THEN Drop(rest, 4) ELSE rest
         IN  Drop(tagged, SkipWs(tagged, 1) - 1)

\* re.sub(r"\s*<fence>$", "", text); text ends in no line break here.
StripTrailingFence(text) ==
    IF ~EndsWith(text, Fence) THEN text
    ELSE SubSeq(text, 1, SkipWsBack(text, Len(text) - 3))

\* The place after the digits that start at i.
RECURSIVE SkipDigits(_, _)
SkipDigits(s, i) ==
    IF i <= Len(s) /\ Char(s, i) = "1" THEN SkipDigits(s, i + 1) ELSE i

NoValue == [ok |-> FALSE, next |-> 0, val |-> ""]

\* The JSON decoder on the characters of the model's texts: whitespace, the
\* digit 1, brackets, braces, and characters no JSON text holds.  Of these
\* the JSON values are the numbers 1, 11, ..., the empty object, the empty
\* array and the array of one value (there is no comma, quote or colon).
\* JsonValue(s, i) decodes the value that starts at i, after whitespace:
\* [ok, next, val], val the value in canonical text, next the place after it.
RECURSIVE JsonValue(_, _)
JsonValue(s, i) ==
    LET j == SkipWs(s, i)
    IN  IF j > Len(s) THEN NoValue
        ELSE IF Char(s, j) = "1"
        THEN [ok |-> TRUE, next |-> SkipDigits(s, j), val |-> SubSeq(s, j, SkipDigits(s, j) - 1)]
        ELSE IF Char(s, j) = "{"
        THEN LET k == SkipWs(s, j + 1)
             IN  IF k <= Len(s) /\ Char(s, k) = "}"
                 THEN [ok |-> TRUE, next |-> k + 1, val |-> "{}"]
                 ELSE NoValue
        ELSE IF Char(s, j) = "["
        THEN LET k == SkipWs(s, j + 1)
             IN  IF k <= Len(s) /\ Char(s, k) = "]"
                 THEN [ok |-> TRUE, next |-> k + 1, val |-> "[]"]
                 ELSE LET inner == JsonValue(s, k)
                          close == SkipWs(s, inner.next)
                      IN  IF inner.ok /\ close <= Len(s) /\ Char(s, close) = "]"
                          THEN [ok |-> TRUE, next |-> close + 1,
                                val |-> "[" \o inner.val \o "]"]
                          ELSE NoValue
        ELSE NoValue

\* json.loads(s): the value, when s is one JSON value and whitespace around
\* it; otherwise JSONDecodeError (ok = FALSE).
json_loads(s) ==
    LET v == JsonValue(s, 1)
    IN  IF v.ok /\ SkipWs(s, v.next) = Len(s) + 1 THEN v ELSE NoValue

\* The places of character c in s.
Places(s, c) == {i \in 1 .. Len(s) : Char(s, i) = c}

\* re.search(r"\{.*\}", text, re.DOTALL): the match, from the first "{" to the
\* last "}" after it; found = FALSE when there is none.
SearchObject(text) ==
    LET opens  == Places(text, "{")
        closes == Places(text, "}")
    IN  IF opens # {} /\ closes # {} /\ SetMax(closes) > SetMin(opens)
        THEN [found |-> TRUE, group |-> SubSeq(text, SetMin(opens), SetMax(closes))]
        ELSE [found |-> FALSE, group |-> ""]

\* The document of line 254.
Fallback == "{\"has_charts\": false, \"confidence\": 0.0, \"charts\": []}"

Document(doc) == [status |-> 200, doc |-> doc]

\* The mutant of extract_chart: a reply that does not parse is answered with
\* the fallback at once.
extract_chart_no_salvage(req) ==
    IF req.image = "" THEN Error(400)
    ELSE IF req.provider # "ok" THEN Error(500)
    ELSE LET raw  == IF req.reply.text_block THEN req.reply.text ELSE "{}"
             text == StripTrailingFence(StripLeadingFence(Strip(raw)))
         IN  IF json_loads(text).ok THEN Document(json_loads(text).val)
             ELSE Document(Fallback)

\* extract_chart(request).  req.provider is "ok" when the model's reply
\* arrives and "error" when the call raises; req.reply is the reply: whether
\* it has a text block, and the text of the first one.
extract_chart(req) ==
    IF req.image = "" THEN Error(400)
    ELSE IF req.provider # "ok" THEN Error(500)
    ELSE LET raw   == IF req.reply.text_block THEN req.reply.text ELSE "{}"
             text  == StripTrailingFence(StripLeadingFence(Strip(raw)))
             match == SearchObject(text)
         IN  IF json_loads(text).ok THEN Document(json_loads(text).val)
             ELSE IF match.found /\ json_loads(match.group).ok
                  THEN Document(json_loads(match.group).val)
                  ELSE Document(Fallback)

\* The replies drawn: an opening, a body of up to MaxBody characters, an
\* ending.
MaxBody == 4

BodyChars == {"{", "}", "[", "]", "1", " ", "p"}

Bodies == {Join(cs) : cs \in SeqsUpTo(BodyChars, MaxBody)}

Openings == {"", Fence, Fence \o "json\n", "Here is the JSON:\n", " \n"}

Endings == {"", "\n" \o Fence, Fence \o "\n", " done"}

Replies ==
    {[text_block |-> TRUE, text |-> o \o b \o e] : o \in Openings, b \in Bodies, e \in Endings}
    \cup {[text_block |-> FALSE, text |-> ""]}

ExtractRequests ==
    {[op |-> "extract", image |-> "/9j/4AAQ", provider |-> "ok", reply |-> r] : r \in Replies}
    \cup {[op |-> "extract", image |-> i, provider |-> pr,
           reply |-> [text_block |-> TRUE, text |-> t]] :
            i \in {"", "/9j/4AAQ"}, pr \in {"ok", "error"}, t \in {"{}", "no chart"}}

InitExtract == request \in ExtractRequests /\ response = Pending

ExtractChart ==
    /\ request.op = "extract"
    /\ response = Pending
    /\ response' = extract_chart(request)
    /\ UNCHANGED request

SpecExtract == InitExtract /\ [][ExtractChart]_vars

\* ---------------------------------------------------------------------------
\* Claims about extract_chart
\* ---------------------------------------------------------------------------

\* The reply with the whitespace around it and one leading and one trailing
\* code fence stripped.
C4_Unfenced(reply) == StripTrailingFence(StripLeadingFence(Strip(reply)))

\* The span of the reply from its first "{" to its last "}"; "" if there is
\* no such span.
C4_Span(reply) ==
    IF \E a, b \in 1 .. Len(reply) : a < b /\ Char(reply, a) = "{" /\ Char(reply, b) = "}"
    THEN LET a == CHOOSE i \in 1 .. Len(reply) :
                    Char(reply, i) = "{" /\ \A j \in 1 .. i - 1 : Char(reply, j) # "{"
             b == CHOOSE i \in 1 .. Len(reply) :
                    Char(reply, i) = "}" /\ \A j \in i + 1 .. Len(reply) : Char(reply, j) # "}"
         IN  SubSeq(reply, a, b)
    ELSE ""

Health ==
    /\ request.op = "health"
    /\ response = Pending
    /\ response' = [status |-> 200, body |-> "ok"]
    /\ UNCHANGED request

Requests ==
    {[op |-> "health"]} \cup CompressRequests \cup UploadRequests \cup ExtractRequests
        \cup ExportRequests \cup SameTitleRequests

Init == request \in Requests /\ response = Pending

Next == Health \/ CompressImage \/ UploadFile \/ ExtractChart \/ ExportData

Spec == Init /\ [][Next]_vars

====
